---- MODULE Spec2Model ----
(***************************************************************************)
(* Contact-submission pipeline of the ECIFEC site: the in-memory sliding   *)
(* window limiter (src/lib/rateLimit.js) and the submission handler        *)
(* (src/app/api/contact/route.js).                                         *)
(*                                                                         *)
(* Time is the reading of Date.now(), in milliseconds.  The limiter works  *)
(* on differences of readings, except that a timestamp of 0 is falsy       *)
(* (OldestAttempt); the readings considered are 0, 1 and those one window  *)
(* later.                                                                  *)
(***************************************************************************)
EXTENDS Integers, Sequences, FiniteSets, Bags, TLC

VARIABLES
    now,             \* Date.now()
    rateLimitStore,  \* Map key -> [attempts, firstAttempt]
    env,             \* process.env, fixed when the process starts
    inflight,        \* the bag of POST requests suspended at an await
    log,             \* history: per ip, the checkRateLimit calls made and their results
    last,            \* history: the last operation, the store it started from, its response
    jar,             \* per browser session, the value of its csrf-token cookie
    wire,            \* the bag of requests on their way to the middleware and of
                     \* its responses on their way back
    issued,          \* history: per session, the tokens the middleware set for it
    poster           \* history: the session the last POST came from

sessionVars == <<jar, wire, issued, poster>>

vars == <<now, rateLimitStore, env, inflight, log, last, jar, wire, issued, poster>>

----------------------------------------------------------------------------
(* Bounds of the model *)

\* checkRateLimit calls made directly
MaxCalls == 7
\* POST requests received
MaxPosts == 6
\* checkRateLimit calls made while keys are reset
MaxAdminCalls == 6

----------------------------------------------------------------------------
(* RATE_LIMIT_CONFIG *)

windowMs == 60 * 60 * 1000
maxRequests == 5
cleanupInterval == 10 * 60 * 1000

\* The instants at which the clock is read: the start, one millisecond later,
\* and the instants around one window after each of them.
Instants == {0, 1, windowMs - 1, windowMs, windowMs + 1}

\* The instants at which it is read while requests are handled.
HandlerInstants == {0, windowMs - 1, windowMs}

\* Strings that the code takes apart (header values, addresses, store keys)
\* are sequences of symbols: a blank " ", a comma ",", or a chunk of other
\* characters. The empty string is the empty sequence.
Str(chunk) == <<chunk>>

\* Client addresses the limiter is called with.
Ips == {Str("1.2.3.4"), Str("unknown")}

----------------------------------------------------------------------------
(* Helpers *)

Max(a, b) == IF a >= b THEN a ELSE b

\* Math.ceil(a / b) for b > 0
CeilDiv(a, b) == IF a >= 0 THEN (a + b - 1) \div b ELSE -((-a) \div b)

RECURSIVE SumLen(_, _)
SumLen(f, S) ==
    IF S = {} THEN 0
    ELSE LET k == CHOOSE x \in S : TRUE
         IN Len(f[k]) + SumLen(f, S \ {k})

----------------------------------------------------------------------------
(* checkRateLimit *)

\* `contact:${ip}`
RateLimitKey(ip) == Str("contact:") \o ip

\* Mutants of InWindow: a window one millisecond short, and a window that
\* still holds an attempt made exactly windowMs ago.
InWindowShort(timestamp, t) == t - timestamp < windowMs - 1
InWindowInclusive(timestamp, t) == t - timestamp <= windowMs

\* timestamp => now - timestamp < RATE_LIMIT_CONFIG.windowMs  (checkRateLimit)
InWindow(timestamp, t) == t - timestamp < windowMs

\* ipData.attempts.filter(...)
FilterAttempts(attempts, t) == SelectSeq(attempts, LAMBDA ts : InWindow(ts, t))

\* rateLimitStore.get(key), or the fresh entry when there is none
GetIpData(store, key, t) ==
    IF key \in DOMAIN store THEN store[key]
    ELSE [attempts |-> <<>>, firstAttempt |-> t]

\* Mutant of Allowed: one request too many.
AllowedInclusive(currentCount) == currentCount <= maxRequests

\* currentCount < RATE_LIMIT_CONFIG.maxRequests
Allowed(currentCount) == currentCount < maxRequests

\* ipData.attempts[0] || now : a timestamp of 0 is falsy
OldestAttempt(attempts, t) ==
    IF Len(attempts) > 0 /\ attempts[1] # 0 THEN attempts[1] ELSE t

\* Mutant of Remaining: the admitted call itself is not counted.
RemainingNotDecremented(currentCount) ==
    IF Allowed(currentCount) THEN Max(0, maxRequests - currentCount) ELSE 0

\* remaining: allowed ? remaining - 1 : 0
Remaining(currentCount) ==
    IF Allowed(currentCount) THEN Max(0, maxRequests - currentCount) - 1 ELSE 0

\* The value checkRateLimit(ip) returns when called at time t on store.
CheckResult(store, ip, t) ==
    LET ipData == GetIpData(store, RateLimitKey(ip), t)
        attempts == FilterAttempts(ipData.attempts, t)
        currentCount == Len(attempts)
        resetTime == OldestAttempt(attempts, t) + windowMs
        allowed == Allowed(currentCount)
    IN [allowed |-> allowed,
        remaining |-> Remaining(currentCount),
        resetTime |-> resetTime,
        retryAfter |-> IF allowed THEN 0 ELSE CeilDiv(resetTime - t, 1000)]

\* Mutant of CheckStore: the attempt is recorded whether or not the call is
\* allowed.
CheckStoreRecordsRefused(store, ip, t) ==
    LET key == RateLimitKey(ip)
        ipData == GetIpData(store, key, t)
        attempts == FilterAttempts(ipData.attempts, t)
    IN [k \in DOMAIN store \cup {key} |->
           IF k = key
           THEN [attempts |-> Append(attempts, t), firstAttempt |-> ipData.firstAttempt]
           ELSE store[k]]

\* The store checkRateLimit(ip) leaves when called at time t on store. The
\* filtered list is assigned to the entry object itself, so an entry that is
\* already in the store is pruned also when the call is refused.
CheckStore(store, ip, t) ==
    LET key == RateLimitKey(ip)
        ipData == GetIpData(store, key, t)
        attempts == FilterAttempts(ipData.attempts, t)
    IN IF Allowed(Len(attempts))
       THEN [k \in DOMAIN store \cup {key} |->
                IF k = key
                THEN [attempts |-> Append(attempts, t),
                      firstAttempt |-> ipData.firstAttempt]
                ELSE store[k]]
       ELSE [k \in DOMAIN store |->
                IF k = key
                THEN [attempts |-> attempts, firstAttempt |-> ipData.firstAttempt]
                ELSE store[k]]

----------------------------------------------------------------------------
(* startCleanup: the interval callback *)

\* Mutant of CleanupValid: a window one millisecond short.
CleanupValidShort(timestamp, t) == t - timestamp < windowMs - 1

\* timestamp => now - timestamp < RATE_LIMIT_CONFIG.windowMs  (cleanup)
CleanupValid(timestamp, t) == t - timestamp < windowMs

\* Mutant of ExpiredKeys: an entry is expired as soon as one attempt is.
ExpiredKeysAny(store, t) ==
    {key \in DOMAIN store :
        Len(SelectSeq(store[key].attempts, LAMBDA ts : CleanupValid(ts, t)))
            < Len(store[key].attempts)}

\* expiredKeys
ExpiredKeys(store, t) ==
    {key \in DOMAIN store :
        Len(SelectSeq(store[key].attempts, LAMBDA ts : CleanupValid(ts, t))) = 0}

\* Mutant of CleanupStore: the entries are pruned of their expired attempts
\* and none is deleted.
CleanupStorePrunes(store, t) ==
    [key \in DOMAIN store |->
        [store[key] EXCEPT
            !.attempts = SelectSeq(@, LAMBDA ts : CleanupValid(ts, t))]]

\* Mutant of CleanupStore: the store is cleared.
CleanupStoreClears(store, t) == << >>

\* Mutant of CleanupStore: the expired keys are collected and not deleted.
CleanupStoreKeepsAll(store, t) == store

\* expiredKeys.forEach(key => rateLimitStore.delete(key))
CleanupStore(store, t) ==
    [key \in DOMAIN store \ ExpiredKeys(store, t) |-> store[key]]

----------------------------------------------------------------------------
(* JavaScript values of request fields and environment variables, written   *)
(* as their literals.                                                       *)

JsFalsy == {"undefined", "null", "false", "0", "''"}

\* !v is false
Truthy(v) == v \notin JsFalsy

\* a || b
OrElse(a, b) == IF Truthy(a) THEN a ELSE b

Digit(d) ==
    CASE d = 0 -> "0" [] d = 1 -> "1" [] d = 2 -> "2" [] d = 3 -> "3" [] d = 4 -> "4"
      [] d = 5 -> "5" [] d = 6 -> "6" [] d = 7 -> "7" [] d = 8 -> "8" [] d = 9 -> "9"

\* n.toString() for an integer n >= 0
RECURSIVE NumberToString(_)
NumberToString(n) ==
    IF n < 10 THEN <<Digit(n)>> ELSE NumberToString(n \div 10) \o <<Digit(n % 10)>>

----------------------------------------------------------------------------
(* POST: the client address *)

\* headers.get(name) of a header the request does not carry
Absent == Str("(absent)")

\* s.split(',')[0]
RECURSIVE FirstField(_)
FirstField(s) ==
    IF s = <<>> \/ Head(s) = "," THEN <<>>
    ELSE <<Head(s)>> \o FirstField(Tail(s))

RECURSIVE TrimStart(_)
TrimStart(s) == IF s # <<>> /\ Head(s) = " " THEN TrimStart(Tail(s)) ELSE s

RECURSIVE TrimEnd(_)
TrimEnd(s) ==
    IF s # <<>> /\ s[Len(s)] = " " THEN TrimEnd(SubSeq(s, 1, Len(s) - 1)) ELSE s

\* s.trim()
Trim(s) == TrimEnd(TrimStart(s))

\* Mutant of ClientIp: x-real-ip is looked at before x-forwarded-for.
ClientIpRealIpFirst(xff, realIp) ==
    LET first == IF xff = Absent THEN <<>> ELSE Trim(FirstField(xff))
    IN IF realIp # Absent /\ realIp # <<>> THEN realIp
       ELSE IF first # <<>> THEN first
       ELSE Str("unknown")

\* request.headers.get('x-forwarded-for')?.split(',')[0].trim() ||
\* request.headers.get('x-real-ip') || 'unknown'
ClientIp(xff, realIp) ==
    LET first == IF xff = Absent THEN <<>> ELSE Trim(FirstField(xff))
    IN IF first # <<>> THEN first
       ELSE IF realIp # Absent /\ realIp # <<>> THEN realIp
       ELSE Str("unknown")

----------------------------------------------------------------------------
(* POST: the checks *)

\* Mutant of CsrfInvalid: the tokens are compared only when there is a cookie.
CsrfInvalidWhenPresent(cookie, header) == Truthy(cookie) /\ cookie # header

\* !csrfTokenFromCookie || csrfTokenFromCookie !== csrfTokenFromHeader
CsrfInvalid(cookie, header) == ~Truthy(cookie) \/ cookie # header

\* await request.json() rejects: the body is not JSON text
JsonRejects(body) == body.kind = "invalid"

\* body.name throws: the body is the JSON value null
FieldAccessThrows(body) == body.kind = "null"

\* !body.name || !body.email || !body.message || !body.rgpd
MissingFields(body) ==
    \/ ~Truthy(body.name)
    \/ ~Truthy(body.email)
    \/ ~Truthy(body.message)
    \/ ~Truthy(body.rgpd)

\* !serviceId || !templateId || !publicKey
ConfigMissing(e) ==
    \/ ~Truthy(e.EMAILJS_SERVICE_ID)
    \/ ~Truthy(e.EMAILJS_TEMPLATE_ID)
    \/ ~Truthy(e.EMAILJS_PUBLIC_KEY)

\* autoresponseTemplateId && autoresponseTemplateId !== 'your_autoresponse_template_id_here'
AutoresponseOn(e) ==
    /\ Truthy(e.EMAILJS_AUTORESPONSE_TEMPLATE_ID)
    /\ e.EMAILJS_AUTORESPONSE_TEMPLATE_ID # "'your_autoresponse_template_id_here'"

----------------------------------------------------------------------------
(* middleware *)

\* The browser sessions considered.
Sessions == {"A", "B"}

\* The values crypto.randomUUID() returns, in the order it returns them: no
\* value comes twice.
UUIDs == <<"'uuid-1'", "'uuid-2'">>

\* response.cookies of middleware(request): the csrf-token cookie is set to
\* newToken when the request carries none.
SetCookie(csrfToken, newToken) == IF ~Truthy(csrfToken) THEN newToken ELSE "undefined"

----------------------------------------------------------------------------
(* POST and GET: the responses *)

NoResponse == [status |-> 0]

TooManyRequests(result) ==
    [status |-> 429,
     body |-> [error |-> "Trop de tentatives. Veuillez patienter avant de reessayer.",
               retryAfter |-> result.retryAfter],
     headers |-> [RetryAfter |-> NumberToString(result.retryAfter),
                  XRateLimitLimit |-> Str("5"),
                  XRateLimitRemaining |-> Str("0")]]

Forbidden == [status |-> 403, body |-> [error |-> "Invalid CSRF token"]]

BadRequest == [status |-> 400, body |-> [error |-> "Missing required fields"]]

NotConfigured == [status |-> 500, body |-> [error |-> "Email service not configured"]]

\* the catch block: error.message || error.text || 'An error occurred'
Failed(error) ==
    [status |-> 500,
     body |-> [error |-> "Failed to send email",
               message |-> OrElse(error.message, OrElse(error.text, "'An error occurred'"))]]

\* Mutant of Success: the remaining count is the one before the request's own
\* attempt.
SuccessBeforeOwnAttempt(result) ==
    [status |-> 200,
     body |-> [success |-> TRUE, message |-> "Email sent successfully"],
     headers |-> [XRateLimitLimit |-> Str("5"),
                  XRateLimitRemaining |-> NumberToString(result.remaining + 1)]]

Success(result) ==
    [status |-> 200,
     body |-> [success |-> TRUE, message |-> "Email sent successfully"],
     headers |-> [XRateLimitLimit |-> Str("5"),
                  XRateLimitRemaining |-> NumberToString(result.remaining)]]

MethodNotAllowed == [status |-> 405, body |-> [error |-> "Method not allowed"]]

\* What request.json() and the property reads throw.
SyntaxError == [message |-> "'Unexpected end of JSON input'", text |-> "undefined"]
TypeError == [message |-> "'Cannot read properties of null'", text |-> "undefined"]

----------------------------------------------------------------------------
(* Inputs *)

\* x-forwarded-for and x-real-ip headers of the requests
XForwardedFor == {<<"1.2.3.4", ",", " ", "10.0.0.1">>}
XRealIp == {Absent}

\* The same headers in more shapes: absent, empty, padded with spaces, with an
\* empty or blank first value, with several values.
ForwardedHeaders ==
    { Absent,
      <<>>,
      <<"1.2.3.4">>,
      <<" ", "1.2.3.4", " ">>,
      <<"1.2.3.4", ",", " ", "10.0.0.1">>,
      <<"unknown", ",", "1.2.3.4">>,
      <<",", "1.2.3.4">>,
      <<" ", ",", "1.2.3.4">> }
RealIpHeaders == {Absent, <<>>, <<"1.2.3.4">>, <<"unknown">>}

\* The connections the requests arrive on; a connection carries one request
\* at a time, so that many requests can be suspended together.
Connections == {"c1", "c2"}

\* csrf-token cookie and X-CSRF-Token header of the requests
Cookies == {"undefined", "'abc'"}
CsrfHeaders == {"null", "'abc'", "'xyz'"}

Object(name, email, message, rgpd) ==
    [kind |-> "object", name |-> name, email |-> email, message |-> message, rgpd |-> rgpd]

\* Request bodies: no JSON text, the JSON values null and 7 (whose properties
\* are all undefined), and objects.
Bodies ==
    { [kind |-> "invalid"],
      [kind |-> "null"],
      [kind |-> "number", name |-> "undefined", email |-> "undefined",
       message |-> "undefined", rgpd |-> "undefined"],
      Object("'Ann'", "'ann@example.org'", "'Hello'", "true"),
      Object("undefined", "'ann@example.org'", "'Hello'", "true"),
      Object("'Ann'", "''", "'Hello'", "true"),
      Object("'Ann'", "'ann@example.org'", "undefined", "true"),
      Object("'Ann'", "'ann@example.org'", "'Hello'", "undefined"),
      Object("'Ann'", "'ann@example.org'", "'Hello'", "false"),
      Object("'Ann'", "'ann@example.org'", "'Hello'", "'yes'"),
      Object("'Ann'", "'ann@example.org'", "'Hello'", "1") }

Environment(service, template, public, private, autoresponse) ==
    [EMAILJS_SERVICE_ID |-> service,
     EMAILJS_TEMPLATE_ID |-> template,
     EMAILJS_PUBLIC_KEY |-> public,
     EMAILJS_PRIVATE_KEY |-> private,
     EMAILJS_AUTORESPONSE_TEMPLATE_ID |-> autoresponse]

\* The deployed configuration, with an autoresponse template.
Production == Environment("'service'", "'template'", "'public'", "'private'", "'autoresponse'")

\* process.env of the processes considered
Environments ==
    { Production,
      Environment("'service'", "'template'", "'public'", "'private'",
                  "'your_autoresponse_template_id_here'"),
      Environment("undefined", "'template'", "'public'", "'private'", "undefined"),
      Environment("'service'", "''", "'public'", "'private'", "undefined"),
      Environment("'service'", "'template'", "undefined", "'private'", "undefined"),
      Environment("'service'", "'template'", "'public'", "undefined", "undefined") }

\* What a rejected emailjs.send is rejected with.
MailErrors ==
    { [message |-> "undefined", text |-> "'The Public Key is invalid'"],
      [message |-> "'connect ETIMEDOUT'", text |-> "undefined"] }

----------------------------------------------------------------------------
(* State machine *)

NoRequest == [pc |-> "none"]

Op(op, ip, req, res) ==
    [op |-> op, ip |-> ip, at |-> now, pre |-> rateLimitStore, req |-> req, res |-> res]

InitLimiter ==
    /\ jar = [s \in Sessions |-> "undefined"]
    /\ wire = EmptyBag
    /\ issued = [s \in Sessions |-> <<>>]
    /\ poster = "none"
    /\ now = 0
    /\ rateLimitStore = << >>
    /\ inflight = EmptyBag
    /\ log = [ip \in Ips |-> <<>>]
    /\ last = [op |-> "init", ip |-> <<>>, at |-> 0, pre |-> << >>,
               req |-> NoRequest, res |-> NoResponse]

Init ==
    /\ InitLimiter
    /\ env = Production

\* The clock advances to one of the instants T (Date.now() never goes back).
Tick(T) ==
    /\ \E t \in T : t > now /\ now' = t
    /\ last' = Op("tick", <<>>, NoRequest, NoResponse)
    /\ UNCHANGED <<rateLimitStore, env, inflight, log>>

\* The limiter part of a step that calls checkRateLimit(ip).
Check(ip) ==
    /\ rateLimitStore' = CheckStore(rateLimitStore, ip, now)
    /\ log' = [log EXCEPT ![ip] =
                 Append(@, [at |-> now, result |-> CheckResult(rateLimitStore, ip, now)])]

\* A call of checkRateLimit(ip).
CheckRateLimit(ip) ==
    /\ SumLen(log, Ips) < MaxCalls
    /\ Check(ip)
    /\ last' = Op("check", ip, NoRequest, NoResponse)
    /\ UNCHANGED <<now, env, inflight>>

\* One run of the cleanup interval callback. The timer fires every
\* cleanupInterval; a run may fall at any clock reading, before or after any
\* step of a request.
Cleanup ==
    /\ rateLimitStore' = CleanupStore(rateLimitStore, now)
    /\ last' = Op("cleanup", <<>>, NoRequest, NoResponse)
    /\ UNCHANGED <<now, env, inflight, log>>

Next ==
    /\ \/ Tick(Instants)
       \/ \E ip \in Ips : CheckRateLimit(ip)
       \/ Cleanup
    /\ UNCHANGED sessionVars

Spec == Init /\ [][Next]_vars

\* resetRateLimit(ip)
ResetRateLimit(ip) ==
    /\ rateLimitStore' =
          [key \in DOMAIN rateLimitStore \ {RateLimitKey(ip)} |-> rateLimitStore[key]]
    /\ last' = Op("reset", ip, NoRequest, NoResponse)
    /\ UNCHANGED <<now, env, inflight, log>>

\* The limiter with all its exports in use.
NextAdmin ==
    /\ \/ Tick(HandlerInstants)
       \/ \E ip \in Ips : SumLen(log, Ips) < MaxAdminCalls /\ CheckRateLimit(ip)
       \/ Cleanup
       \/ \E ip \in Ips : ResetRateLimit(ip)
    /\ UNCHANGED sessionVars

SpecAdmin == Init /\ [][NextAdmin]_vars

\* The limiter with its timer running for ever.  The clock is read at the
\* SweepInstants; the keys receive their calls up to one window before the
\* last of them, and none afterwards.
SweepInstants == {0, windowMs - 1, windowMs, 2 * windowMs}

LastCall == windowMs

ClockStep == Tick(SweepInstants) /\ UNCHANGED sessionVars

CallStep == \E ip \in Ips : now <= LastCall /\ CheckRateLimit(ip) /\ UNCHANGED sessionVars

SweepStep == Cleanup /\ UNCHANGED sessionVars

NextSweep == ClockStep \/ CallStep \/ SweepStep

\* setInterval fires the callback again and again, and time passes.
SpecSweep == Init /\ [][NextSweep]_vars /\ WF_vars(SweepStep) /\ WF_vars(ClockStep)

----------------------------------------------------------------------------
(* The submission handler *)

\* The suspended request r answers: it leaves the handler.
Respond(op, r, q, res) ==
    /\ inflight' = inflight (-) SetToBag({r})
    /\ last' = Op(op, r.ip, q, res)

\* The suspended request r, become q, calls emailjs.send for templateId and is
\* suspended until the call settles; seen is what the step read.
Dispatch(op, r, q, seen, templateId, pc) ==
    LET s == [q EXCEPT !.pc = pc, !.dispatches = Append(@, templateId)]
    IN /\ inflight' = (inflight (-) SetToBag({r})) (+) SetToBag({s})
       /\ last' = Op(op, r.ip, s @@ seen, NoResponse)

\* Mutant of PostStart: the CSRF check is made before the limiter is consulted.
PostStartCsrfFirst(xff, realIp, cookie, header) ==
    LET ip == ClientIp(xff, realIp)
        rateLimitResult == CheckResult(rateLimitStore, ip, now)
        r == [pc |-> "json", ip |-> ip, rateLimitResult |-> rateLimitResult,
              cookie |-> cookie, header |-> header, dispatches |-> <<>>,
              call |-> Len(log[ip]) + 1]
        q == [r EXCEPT !.pc = "start"] @@ [xff |-> xff, realIp |-> realIp]
    IN /\ SumLen(log, Ips) < MaxPosts
       /\ BagCardinality(inflight) < Cardinality(Connections)
       /\ ip \in Ips
       /\ IF CsrfInvalid(cookie, header)
          THEN /\ last' = Op("POST", ip, q, Forbidden)
               /\ UNCHANGED <<rateLimitStore, log, inflight>>
          ELSE /\ Check(ip)
               /\ IF ~rateLimitResult.allowed
                  THEN /\ last' = Op("POST", ip, q, TooManyRequests(rateLimitResult))
                       /\ UNCHANGED inflight
                  ELSE /\ last' = Op("POST", ip, q, NoResponse)
                       /\ inflight' = inflight (+) SetToBag({r})
       /\ UNCHANGED <<now, env>>

\* POST, from the call to its first await or to its early response.  The
\* request keeps what it had in hand: the limiter's result, the two tokens
\* and, as history, the index of its checkRateLimit call among those of its ip.
PostStart(xff, realIp, cookie, header) ==
    LET ip == ClientIp(xff, realIp)
        rateLimitResult == CheckResult(rateLimitStore, ip, now)
        r == [pc |-> "json", ip |-> ip, rateLimitResult |-> rateLimitResult,
              cookie |-> cookie, header |-> header, dispatches |-> <<>>,
              call |-> Len(log[ip]) + 1]
        q == [r EXCEPT !.pc = "start"] @@ [xff |-> xff, realIp |-> realIp]
    IN /\ SumLen(log, Ips) < MaxPosts
       /\ BagCardinality(inflight) < Cardinality(Connections)
       /\ ip \in Ips
       /\ Check(ip)
       /\ IF ~rateLimitResult.allowed
          THEN /\ last' = Op("POST", ip, q, TooManyRequests(rateLimitResult))
               /\ UNCHANGED inflight
          ELSE IF CsrfInvalid(cookie, header)
          THEN /\ last' = Op("POST", ip, q, Forbidden)
               /\ UNCHANGED inflight
          ELSE /\ last' = Op("POST", ip, q, NoResponse)
               /\ inflight' = inflight (+) SetToBag({r})
       /\ UNCHANGED <<now, env>>

\* templateParams, as far as the dispatches go
TemplateParams(body, ip) ==
    [from_name |-> body.name, from_email |-> body.email, message |-> body.message,
     ip_address |-> ip]

\* Mutant of PostJson: the request gives its key's quota back, whatever it
\* goes on to.
PostJsonRefunds(r, body) ==
    LET seen == [body |-> body]
    IN /\ r.pc = "json"
       /\ IF JsonRejects(body) THEN Respond("json", r, r @@ seen, Failed(SyntaxError))
          ELSE IF FieldAccessThrows(body) THEN Respond("json", r, r @@ seen, Failed(TypeError))
          ELSE IF MissingFields(body) THEN Respond("json", r, r @@ seen, BadRequest)
          ELSE IF ConfigMissing(env) THEN Respond("json", r, r @@ seen, NotConfigured)
          ELSE Dispatch("json", r, r @@ [templateParams |-> TemplateParams(body, r.ip)],
                        seen, env.EMAILJS_TEMPLATE_ID, "send")
       /\ rateLimitStore' =
             [key \in DOMAIN rateLimitStore \ {RateLimitKey(r.ip)} |-> rateLimitStore[key]]
       /\ UNCHANGED <<now, env, log>>

\* POST, from the settling of request.json(), which reads the body the client
\* sent, to the primary dispatch or to an early response.
PostJson(r, body) ==
    LET seen == [body |-> body]
    IN /\ r.pc = "json"
       /\ IF JsonRejects(body) THEN Respond("json", r, r @@ seen, Failed(SyntaxError))
          ELSE IF FieldAccessThrows(body) THEN Respond("json", r, r @@ seen, Failed(TypeError))
          ELSE IF MissingFields(body) THEN Respond("json", r, r @@ seen, BadRequest)
          ELSE IF ConfigMissing(env) THEN Respond("json", r, r @@ seen, NotConfigured)
          ELSE Dispatch("json", r, r @@ [templateParams |-> TemplateParams(body, r.ip)],
                        seen, env.EMAILJS_TEMPLATE_ID, "send")
       /\ UNCHANGED <<now, rateLimitStore, env, log>>

\* POST, the primary emailjs.send resolves.
PostSent(r) ==
    /\ r.pc = "send"
    /\ IF AutoresponseOn(env)
       THEN Dispatch("sent", r, r, << >>, env.EMAILJS_AUTORESPONSE_TEMPLATE_ID,
                     "autoresponse")
       ELSE Respond("sent", r, r, Success(r.rateLimitResult))
    /\ UNCHANGED <<now, rateLimitStore, env, log>>

\* Mutant of PostAutoresponded: the headers of the answer are taken from a
\* further call of checkRateLimit.
PostAutorespondedChecksAgain(r) ==
    /\ r.pc = "autoresponse"
    /\ Check(r.ip)
    /\ Respond("autoresponded", r, r, Success(CheckResult(rateLimitStore, r.ip, now)))
    /\ UNCHANGED <<now, env>>

\* POST, the autoresponse emailjs.send resolves.
PostAutoresponded(r) ==
    /\ r.pc = "autoresponse"
    /\ Respond("autoresponded", r, r, Success(r.rateLimitResult))
    /\ UNCHANGED <<now, rateLimitStore, env, log>>

\* POST, an emailjs.send rejects: the catch block answers.
PostSendFailed(r, error) ==
    /\ r.pc \in {"send", "autoresponse"}
    /\ Respond("failed", r, r, Failed(error))
    /\ UNCHANGED <<now, rateLimitStore, env, log>>

\* Mutant of Get: the request goes through the limiter like a POST.
GetThroughLimiter ==
    \E ip \in Ips :
        /\ Check(ip)
        /\ last' = Op("GET", ip, NoRequest,
                      IF CheckResult(rateLimitStore, ip, now).allowed
                      THEN MethodNotAllowed
                      ELSE TooManyRequests(CheckResult(rateLimitStore, ip, now)))
        /\ UNCHANGED <<now, env, inflight>>

\* GET
Get ==
    /\ last' = Op("GET", <<>>, NoRequest, MethodNotAllowed)
    /\ UNCHANGED <<now, rateLimitStore, env, inflight, log>>

\* The handler runs in the deployed configuration.
InitHandler ==
    /\ InitLimiter
    /\ env = Production

NextHandler ==
    /\ \/ Tick(HandlerInstants)
       \/ Cleanup
       \/ \E xff \in XForwardedFor, realIp \in XRealIp, cookie \in Cookies,
             header \in CsrfHeaders :
             PostStart(xff, realIp, cookie, header)
       \/ \E r \in BagToSet(inflight), body \in Bodies : PostJson(r, body)
       \/ \E r \in BagToSet(inflight) : PostSent(r)
       \/ \E r \in BagToSet(inflight) : PostAutoresponded(r)
       \/ \E r \in BagToSet(inflight), error \in MailErrors : PostSendFailed(r, error)
       \/ Get
    /\ UNCHANGED sessionVars

SpecHandler == InitHandler /\ [][NextHandler]_vars

\* The handler under each of the configurations a process may start with.
InitConfig ==
    /\ InitLimiter
    /\ env \in Environments

NextConfig ==
    /\ \/ Tick(HandlerInstants)
       \/ Cleanup
       \/ \E xff \in XForwardedFor, realIp \in XRealIp, cookie \in Cookies,
             header \in CsrfHeaders :
             PostStart(xff, realIp, cookie, header)
       \/ \E r \in BagToSet(inflight), body \in Bodies : PostJson(r, body)
       \/ \E r \in BagToSet(inflight) : PostSent(r)
       \/ \E r \in BagToSet(inflight) : PostAutoresponded(r)
       \/ \E r \in BagToSet(inflight), error \in MailErrors : PostSendFailed(r, error)
       \/ Get
    /\ UNCHANGED sessionVars

SpecConfig == InitConfig /\ [][NextConfig]_vars

\* The handler in a process started without EMAILJS_PUBLIC_KEY: no request
\* gets as far as a dispatch.
Unconfigured == Environment("'service'", "'template'", "undefined", "'private'", "undefined")

InitUnconfigured ==
    /\ InitLimiter
    /\ env = Unconfigured

NextUnconfigured ==
    /\ \/ Tick(HandlerInstants)
       \/ Cleanup
       \/ \E xff \in XForwardedFor, realIp \in XRealIp, cookie \in Cookies,
             header \in CsrfHeaders :
             PostStart(xff, realIp, cookie, header)
       \/ \E r \in BagToSet(inflight), body \in Bodies : PostJson(r, body)
       \/ Get
    /\ UNCHANGED sessionVars

SpecUnconfigured == InitUnconfigured /\ [][NextUnconfigured]_vars

\* The handler with the address headers in all their shapes.  The key is
\* derived and the limiter called before anything else is read, so the
\* requests considered here are those without X-CSRF-Token header, which are
\* answered in their first step.
NextAddress ==
    /\ \E xff \in ForwardedHeaders, realIp \in RealIpHeaders, cookie \in Cookies :
          PostStart(xff, realIp, cookie, "null")
    /\ UNCHANGED sessionVars

SpecAddress == InitHandler /\ [][NextAddress]_vars

----------------------------------------------------------------------------
(* Sessions: the browsers, the middleware and the POST *)

handlerVars == <<now, rateLimitStore, env, inflight, log, last>>

\* The browser of session s sends a request, of any method, with the cookie
\* it holds.
Request(s) ==
    /\ BagCardinality(wire) < Cardinality(Connections)
    /\ wire' = wire (+) SetToBag({[to |-> "server", session |-> s, cookie |-> jar[s]]})
    /\ UNCHANGED <<jar, issued, poster>>
    /\ UNCHANGED handlerVars

\* middleware(request): the response sets the cookie for a request without
\* one; it is kept with the cookie of the request it answers.
Middleware(request) ==
    LET tokens == SumLen(issued, Sessions)
        newToken == UUIDs[tokens + 1]
        setCookie == SetCookie(request.cookie, newToken)
        response == [to |-> "browser", session |-> request.session,
                     cookie |-> request.cookie, setCookie |-> setCookie]
    IN /\ request.to = "server"
       /\ ~Truthy(request.cookie) => tokens < Len(UUIDs)
       /\ wire' = (wire (-) SetToBag({request})) (+) SetToBag({response})
       /\ issued' = IF setCookie # "undefined"
                    THEN [issued EXCEPT ![request.session] = Append(@, setCookie)]
                    ELSE issued
       /\ UNCHANGED <<jar, poster>>
       /\ UNCHANGED handlerVars

\* The browser receives a response and stores the cookie it sets.
Receive(response) ==
    /\ response.to = "browser"
    /\ wire' = wire (-) SetToBag({response})
    /\ jar' = IF response.setCookie # "undefined"
              THEN [jar EXCEPT ![response.session] = response.setCookie]
              ELSE jar
    /\ UNCHANGED <<issued, poster>>
    /\ UNCHANGED handlerVars

\* The tokens the middleware has set so far, for whichever session.
IssuedTokens == UNION {{issued[s][i] : i \in 1..Len(issued[s])} : s \in Sessions}

\* What a client can present as a token: nothing, a value it made up, or a
\* value the middleware has set.
Presentable == {"'forged'"} \cup IssuedTokens

\* A client of session s sends a POST with the cookie and header it chooses,
\* here once the POST before it has been answered and while no other request
\* is on its way.
SessionPost(s, cookie, header) ==
    /\ inflight = EmptyBag
    /\ wire = EmptyBag
    /\ \E xff \in XForwardedFor, realIp \in XRealIp :
          PostStart(xff, realIp, cookie, header)
    /\ poster' = s
    /\ UNCHANGED <<jar, wire, issued>>

InitSession ==
    /\ InitLimiter
    /\ env = Production

NextSession ==
    \/ \E s \in Sessions : Request(s)
    \/ \E request \in BagToSet(wire) : Middleware(request)
    \/ \E response \in BagToSet(wire) : Receive(response)
    \/ \E s \in Sessions, cookie \in {"undefined"} \cup Presentable,
          header \in {"null"} \cup Presentable :
          SessionPost(s, cookie, header)
    \/ /\ \/ \E r \in BagToSet(inflight), body \in Bodies : PostJson(r, body)
          \/ \E r \in BagToSet(inflight) : PostSent(r)
          \/ \E r \in BagToSet(inflight) : PostAutoresponded(r)
          \/ \E r \in BagToSet(inflight), error \in MailErrors : PostSendFailed(r, error)
       /\ UNCHANGED sessionVars

SpecSession == InitSession /\ [][NextSession]_vars

----------------------------------------------------------------------------
(* Claims about the limiter *)

\* Indices of the calls for ip that were admitted.
AdmittedCalls(ip) == {i \in 1..Len(log[ip]) : log[ip][i].result.allowed}

\* Number of admitted calls for ip whose timestamp lies in [from, from + windowMs).
AdmittedIn(ip, from) ==
    Cardinality({i \in AdmittedCalls(ip) :
                    from <= log[ip][i].at /\ log[ip][i].at < from + windowMs})

\* The starts of the windows looked at: a window that contains admitted calls
\* contains the same ones when it is moved to start at the earliest of them, or
\* to end just after the latest of them.
WindowStarts(ip) ==
    {log[ip][i].at : i \in AdmittedCalls(ip)} \cup
    {log[ip][i].at - windowMs + 1 : i \in AdmittedCalls(ip)}

\* C1: for every key, every half-open interval of length windowMs holds at
\* most maxRequests admitted calls, under any sequence of checkRateLimit and
\* cleanup steps and a clock that never goes back.
C1_SlidingWindowBound ==
    \A ip \in Ips : \A from \in WindowStarts(ip) : AdmittedIn(ip, from) <= maxRequests

\* A key had maxRequests calls admitted, was refused inside the window, and was
\* admitted again after the window slid.
C1_Witness ==
    \E ip \in Ips : \E i, j \in 1..Len(log[ip]) :
        /\ i < j
        /\ ~log[ip][i].result.allowed
        /\ log[ip][j].result.allowed
        /\ AdmittedIn(ip, log[ip][i].at - windowMs + 1) = maxRequests

\* No admitted call for ip before call i is still inside the window at call i.
NoLiveAttempts(ip, i) ==
    \A j \in AdmittedCalls(ip) : j < i => log[ip][i].at - log[ip][j].at >= windowMs

\* C2: from a key with no live attempts, the first maxRequests calls made
\* within windowMs are admitted with remaining = maxRequests - 1 down to 0, and
\* the next call inside the same window is refused.
C2_QuotaThenRefusal ==
    \A ip \in Ips : \A i \in 1..Len(log[ip]) :
        NoLiveAttempts(ip, i) =>
            \A k \in 0..maxRequests :
                (i + k <= Len(log[ip]) /\ log[ip][i + k].at - log[ip][i].at < windowMs) =>
                    /\ k < maxRequests =>
                          /\ log[ip][i + k].result.allowed
                          /\ log[ip][i + k].result.remaining = maxRequests - 1 - k
                    /\ k = maxRequests => ~log[ip][i + k].result.allowed

\* A key used its whole quota from an entry whose attempts had all expired, and
\* the call after that was refused.
C2_Witness ==
    \E ip \in Ips : \E i \in 2..Len(log[ip]) :
        /\ NoLiveAttempts(ip, i)
        /\ i + maxRequests <= Len(log[ip])
        /\ log[ip][i + maxRequests].at - log[ip][i].at < windowMs
        /\ ~log[ip][i + maxRequests].result.allowed

\* C3: when a call for a key is refused and the next call for that key is made
\* once the clock has reached the resetTime the refusal reported, that next
\* call is admitted.
C3_AdmittedAfterReset ==
    \A ip \in Ips : \A i \in 1..(Len(log[ip]) - 1) :
        (~log[ip][i].result.allowed /\ log[ip][i + 1].at >= log[ip][i].result.resetTime)
            => log[ip][i + 1].result.allowed

\* A refused key waited until the reported resetTime, exactly, and was admitted
\* while later attempts of the old window were still live.
C3_Witness ==
    \E ip \in Ips : \E i \in 1..(Len(log[ip]) - 1) :
        /\ ~log[ip][i].result.allowed
        /\ log[ip][i + 1].at = log[ip][i].result.resetTime
        /\ log[ip][i + 1].result.allowed
        /\ log[ip][i + 1].result.remaining < maxRequests - 1

\* C4: every result has remaining >= 0; an admitted one has
\* remaining <= maxRequests - 1 and a refused one has remaining = 0.
C4_RemainingRange ==
    \A ip \in Ips : \A i \in 1..Len(log[ip]) :
        LET result == log[ip][i].result
        IN /\ result.remaining >= 0
           /\ result.allowed => result.remaining <= maxRequests - 1
           /\ ~result.allowed => result.remaining = 0

\* A key got the largest remaining, the smallest one, and a refusal.
C4_Witness ==
    \E ip \in Ips : \E i, j, k \in 1..Len(log[ip]) :
        /\ log[ip][i].result.allowed /\ log[ip][i].result.remaining = maxRequests - 1
        /\ log[ip][j].result.allowed /\ log[ip][j].result.remaining = 0
        /\ ~log[ip][k].result.allowed

\* The attempts of an entry that are inside the window at time t.
LiveAt(entry, t) == SelectSeq(entry.attempts, LAMBDA ts : t - ts < windowMs)

\* C5: a cleanup removes an entry only if none of its attempts is inside the
\* window at the cleanup's own clock reading; an entry with a live attempt is
\* kept, as it was.
C5_CleanupKeepsLive ==
    last.op = "cleanup" =>
        \A key \in DOMAIN last.pre :
            /\ key \notin DOMAIN rateLimitStore => LiveAt(last.pre[key], last.at) = <<>>
            /\ LiveAt(last.pre[key], last.at) # <<>> =>
                  /\ key \in DOMAIN rateLimitStore
                  /\ rateLimitStore[key] = last.pre[key]

\* A cleanup ran one millisecond before the only attempt of an entry expired
\* and kept it, and removed another entry whose attempts had expired.
C5_Witness ==
    /\ last.op = "cleanup"
    /\ \E key \in DOMAIN last.pre :
          /\ key \in DOMAIN rateLimitStore
          /\ \A n \in 1..Len(last.pre[key].attempts) :
                last.at - last.pre[key].attempts[n] = windowMs - 1
    /\ \E key \in DOMAIN last.pre : key \notin DOMAIN rateLimitStore

----------------------------------------------------------------------------
(* Claims about the submission handler *)

\* The timestamps of the admitted calls for ip that are inside the window now.
LiveAdmitted(ip) ==
    LET live == SelectSeq(log[ip], LAMBDA c : c.result.allowed /\ now - c.at < windowMs)
    IN [i \in 1..Len(live) |-> live[i].at]

\* The attempts the store holds for ip that are inside the window now.
LiveStored(ip) ==
    IF RateLimitKey(ip) \in DOMAIN rateLimitStore
    THEN LiveAt(rateLimitStore[RateLimitKey(ip)], now)
    ELSE <<>>

\* C6: with POST requests suspended at their awaits and cleanups run between
\* their steps, every windowMs interval holds at most maxRequests admitted
\* requests of a key, and the store holds every admitted attempt that is still
\* inside the window: no cleanup and no other request loses one.
C6_ConcurrentAdmission ==
    \A ip \in Ips :
        /\ \A from \in WindowStarts(ip) : AdmittedIn(ip, from) <= maxRequests
        /\ LiveStored(ip) = LiveAdmitted(ip)

\* An admitted request of a key is suspended after its primary dispatch while
\* a further request of that key is refused, the quota being used up, at a
\* later clock reading than the first admission.
C6_Witness ==
    /\ \E r \in BagToSet(inflight) : r.ip = last.ip /\ r.pc = "autoresponse"
    /\ last.op = "POST"
    /\ last.res.status = 429
    /\ last.at > 0
    /\ Len(LiveAdmitted(last.ip)) = maxRequests

\* The request carries no cookie token, no header token, or a header token
\* other than its cookie token.
BadTokens(q) == q.cookie = "undefined" \/ q.header = "null" \/ q.header # q.cookie

\* C7, as claimed: every POST with a missing or unequal token is answered 403,
\* whatever the limiter state.
C7_Original ==
    (last.op = "POST" /\ BadTokens(last.req)) => last.res.status = 403

\* C7, amended: every POST that the limiter admits and whose cookie token is
\* missing, whose header token is missing, or whose header token differs from
\* its cookie token is answered 403, before its body is read.
C7_ForbiddenWhenAdmitted ==
    (last.op = "POST" /\ last.req.rateLimitResult.allowed /\ BadTokens(last.req))
        => last.res.status = 403

\* Cookie token 'abc' and header token 'xyz' on the last request the quota
\* admits: 403.
C7_Witness ==
    /\ last.op = "POST"
    /\ last.req.cookie = "'abc'"
    /\ last.req.header = "'xyz'"
    /\ last.req.rateLimitResult.allowed
    /\ last.req.rateLimitResult.remaining = 0
    /\ last.res.status = 403

\* The body is absent or unparseable, is null or no object, or lacks one of
\* name, email, message and rgpd.
LacksRequired(body) ==
    \/ body.kind # "object"
    \/ body.name \in {"undefined", "''"}
    \/ body.email \in {"undefined", "''"}
    \/ body.message \in {"undefined", "''"}
    \/ body.rgpd \in {"undefined", "false"}

\* C8, as claimed: a POST that passed the limiter and the CSRF check and whose
\* body lacks a required field, or is absent, null or no object, is answered
\* 400 and dispatches no mail.
C8_Original ==
    (last.op = "json" /\ LacksRequired(last.req.body)) =>
        (last.res.status = 400 /\ last.req.dispatches = <<>>)

\* C9, as claimed: a POST whose rgpd is anything but the boolean true is
\* answered 400 and dispatches no mail.
C9_Original ==
    (last.op = "json" /\ last.req.body.kind = "object" /\ last.req.body.rgpd # "true") =>
        (last.res.status = 400 /\ last.req.dispatches = <<>>)

\* C10: a GET is answered 405 and leaves the limiter alone: no call is
\* logged and the store and the suspended requests stay as they are.
C10_GetNotAllowed ==
    [][last'.op = "GET" =>
          /\ last'.res.status = 405
          /\ rateLimitStore' = rateLimitStore
          /\ log' = log
          /\ inflight' = inflight]_vars

\* A GET answered 405 while the key's quota is used up and a POST is suspended.
C10_Witness ==
    /\ last.op = "GET"
    /\ last.res.status = 405
    /\ \E ip \in Ips : Len(LiveStored(ip)) = maxRequests
    /\ BagCardinality(inflight) > 0

----------------------------------------------------------------------------
(* Claims about the responses of the handler *)

\* The number of admitted calls of ip, before its call number c, whose
\* timestamps are inside the window at the clock reading of call c.
LiveBefore(ip, c) ==
    Cardinality({j \in 1..(c - 1) :
                    /\ log[ip][j].result.allowed
                    /\ log[ip][c].at - log[ip][j].at < windowMs})

\* C11: a POST that finds k - 1 admitted requests of its key inside the window
\* (k from 1 to maxRequests) is admitted and, once its mail is sent, answered
\* 200 with X-RateLimit-Remaining = maxRequests - k, the remaining count its
\* own checkRateLimit call returned; a POST that finds maxRequests of them is
\* answered 429 with X-RateLimit-Remaining 0 and
\* retryAfter = ceil((resetTime - now) / 1000) > 0.
C11_RemainingHeader ==
    LET q == last.req
        k == LiveBefore(last.ip, q.call) + 1
    IN /\ last.op = "POST" =>
            IF k <= maxRequests
            THEN last.res.status # 429
            ELSE /\ last.res.status = 429
                 /\ last.res.headers.XRateLimitRemaining = Str("0")
                 /\ last.res.body.retryAfter =
                        CeilDiv(q.rateLimitResult.resetTime - last.at, 1000)
                 /\ last.res.body.retryAfter > 0
                 /\ last.res.headers.RetryAfter = NumberToString(last.res.body.retryAfter)
       /\ last.op = "autoresponded" => last.res.status = 200
       /\ last.res.status = 200 =>
            /\ k \in 1..maxRequests
            /\ last.res.headers.XRateLimitRemaining = NumberToString(maxRequests - k)
            /\ q.rateLimitResult = log[last.ip][q.call].result
            /\ q.rateLimitResult.remaining = maxRequests - k

\* The fifth request of a window is answered 200 with X-RateLimit-Remaining 0
\* after a sixth one was refused with a positive retryAfter.
C11_Witness ==
    /\ last.res.status = 200
    /\ last.res.headers.XRateLimitRemaining = Str("0")
    /\ Len(log[last.ip]) = maxRequests + 1
    /\ ~log[last.ip][maxRequests + 1].result.allowed
    /\ log[last.ip][maxRequests + 1].result.retryAfter > 0
    /\ log[last.ip][maxRequests + 1].at - log[last.ip][1].at < windowMs

\* The fields the mail is made of are present in the template parameters.
ParamsPresent(r) ==
    /\ r.templateParams.from_name \notin {"undefined", "''"}
    /\ r.templateParams.from_email \notin {"undefined", "''"}
    /\ r.templateParams.message \notin {"undefined", "''"}

\* C12: the handler checks in the order limiter, CSRF, payload, dispatch.  A
\* request is suspended only once the limiter admitted it and its tokens
\* matched, and a mail is dispatched for it only once its payload passed the
\* validation as well; a POST that the limiter refuses is answered 429
\* whatever its tokens, one that is admitted with bad tokens is answered 403
\* whatever its body, and 400 is answered only to a request that passed both.
C12_CheckOrder ==
    /\ \A r \in BagToSet(inflight) :
          /\ r.rateLimitResult.allowed
          /\ ~BadTokens(r)
          /\ r.dispatches # <<>> => ParamsPresent(r)
    /\ (last.op = "json" /\ last.req.dispatches # <<>>) =>
          /\ last.req.rateLimitResult.allowed
          /\ ~BadTokens(last.req)
          /\ ~LacksRequired(last.req.body)
    /\ last.op \in {"json", "sent", "autoresponded", "failed"} =>
          /\ last.req.rateLimitResult.allowed
          /\ ~BadTokens(last.req)
    /\ last.op = "POST" =>
          last.res.status = IF ~last.req.rateLimitResult.allowed THEN 429
                            ELSE IF BadTokens(last.req) THEN 403
                            ELSE 0

\* A request with bad tokens is refused with 429, the quota being used up,
\* while a request that passed the three checks has its mail dispatched.
C12_Witness ==
    /\ last.op = "POST"
    /\ BadTokens(last.req)
    /\ last.res.status = 429
    /\ \E r \in BagToSet(inflight) : r.dispatches # <<>>

\* One of the four EmailJS credentials is missing from the configuration.
MissingCredential(e) ==
    \E name \in {"EMAILJS_SERVICE_ID", "EMAILJS_TEMPLATE_ID",
                  "EMAILJS_PUBLIC_KEY", "EMAILJS_PRIVATE_KEY"} :
        e[name] \in {"undefined", "''"}

\* C13, as claimed: with a service id, template id, public key or private key
\* missing, a request whose payload passed the validation is answered 500 and
\* no mail is dispatched for it; a request whose dispatch throws is answered
\* 500.
C13_Original ==
    /\ MissingCredential(env) =>
          /\ \A r \in BagToSet(inflight) : r.dispatches = <<>>
          /\ (last.op = "json" /\ ~LacksRequired(last.req.body)) =>
                (last.res.status = 500 /\ last.req.dispatches = <<>>)
    /\ last.op = "failed" => last.res.status = 500

\* The texts of the exceptions a dispatch can throw.
ExceptionTexts ==
    ({e.message : e \in MailErrors} \cup {e.text : e \in MailErrors}) \ {"undefined"}

\* C14, as claimed: when a dispatch throws, the answer is 500 and no field of
\* its body holds the text of the exception.
C14_Original ==
    last.op = "failed" =>
        /\ last.res.status = 500
        /\ \A field \in DOMAIN last.res.body : last.res.body[field] \notin ExceptionTexts

\* C15, as claimed: a request whose primary dispatch completed is not answered
\* with a rejection, whatever becomes of its autoresponse dispatch.
C15_Original ==
    (last.op \in {"sent", "autoresponded", "failed"} /\ Len(last.req.dispatches) = 2) =>
        last.res.status \in {0, 200}

----------------------------------------------------------------------------
(* Claims about the sessions *)

\* C16, as claimed: the middleware sets the cookie only on a response to a
\* request that carried none, and the token of a session does not change once
\* set: the middleware sets at most one token for a session, and a browser
\* that holds a token keeps that one.
C16_Original ==
    /\ \A m \in BagToSet(wire) :
          m.to = "browser" => (m.setCookie # "undefined" <=> m.cookie = "undefined")
    /\ \A s \in Sessions :
          /\ Len(issued[s]) <= 1
          /\ jar[s] # "undefined" => jar[s] = issued[s][1]

\* C17, as claimed: a POST that the limiter admits passes the CSRF check only
\* if the token it presents is one the middleware set for its own session.
C17_Original ==
    (last.op = "POST" /\ last.res.status = 0) =>
        \E i \in 1..Len(issued[poster]) : last.req.cookie = issued[poster][i]

----------------------------------------------------------------------------
(* Further claims about the limiter and its callers *)

\* C18: a POST calls checkRateLimit once, in its first step: that step logs
\* one call and adds at most one attempt to the store, and no later step of a
\* request logs a call or touches the store; the template of each dispatch
\* is invoked at most once for a request, the primary one before the
\* autoresponse.
C18_OneCallOneDispatch ==
    [][/\ last'.op = "POST" =>
            /\ SumLen(log', Ips) = SumLen(log, Ips) + 1
            /\ Len(log'[last'.ip]) = last'.req.call
            /\ Len(LiveAt(rateLimitStore'[RateLimitKey(last'.ip)], now))
                 <= Len(LiveStored(last'.ip)) + 1
       /\ last'.op \in {"json", "sent", "autoresponded", "failed"} =>
            /\ log' = log
            /\ rateLimitStore' = rateLimitStore
            /\ last'.req.dispatches \in
                 {<<>>, <<env.EMAILJS_TEMPLATE_ID>>,
                  <<env.EMAILJS_TEMPLATE_ID, env.EMAILJS_AUTORESPONSE_TEMPLATE_ID>>}]_vars

\* A request is answered 200 after its two dispatches while its key has used
\* up its quota: the store holds one attempt for each admitted request.
C18_Witness ==
    /\ last.op = "autoresponded"
    /\ Len(last.req.dispatches) = 2
    /\ Len(LiveStored(last.ip)) = maxRequests
    /\ Len(log[last.ip]) = maxRequests

\* The timestamps of the admitted calls of ip before its call number c that
\* are inside the window at the clock reading of call c.
LiveTimestampsBefore(ip, c) ==
    {log[ip][j].at : j \in {j \in 1..(c - 1) :
                                /\ log[ip][j].result.allowed
                                /\ log[ip][c].at - log[ip][j].at < windowMs}}

\* The least element of a non-empty set of numbers.
Min(S) == CHOOSE x \in S : \A y \in S : x <= y

\* C19, as claimed: every call returns resetTime = (oldest live timestamp of
\* the key before the call) + windowMs, or now + windowMs when the key has no
\* live timestamp, also when the oldest live timestamp is 0.
C19_Original ==
    \A ip \in Ips : \A c \in 1..Len(log[ip]) :
        log[ip][c].result.resetTime =
            IF LiveTimestampsBefore(ip, c) # {}
            THEN Min(LiveTimestampsBefore(ip, c)) + windowMs
            ELSE log[ip][c].at + windowMs

\* The call that was just made was refused.
Refused == last.op = "check" /\ ~log[last.ip][Len(log[last.ip])].result.allowed

\* C20: a refused call adds no entry to the store and no attempt to any
\* entry, and leaves the live attempts of every key as they were.
C20_RefusedRecordsNothing ==
    Refused =>
        /\ DOMAIN rateLimitStore = DOMAIN last.pre
        /\ \A key \in DOMAIN rateLimitStore :
              /\ Len(rateLimitStore[key].attempts) <= Len(last.pre[key].attempts)
              /\ LiveAt(rateLimitStore[key], last.at) = LiveAt(last.pre[key], last.at)

\* A call is refused while the store holds an entry for the other key too.
C20_Witness ==
    /\ Refused
    /\ Cardinality(DOMAIN rateLimitStore) = Cardinality(Ips)
    /\ last.at > 0

\* C21: with the cleanup timer firing again and again and the clock advancing,
\* once the keys receive no more calls the store ends up empty and stays so:
\* every entry is removed after its last attempt has left the window.
C21_AbandonedKeysRemoved == <>[](DOMAIN rateLimitStore = {})

\* A cleanup removes the entries of both keys, one of which had used up its
\* quota.
C21_Witness ==
    /\ last.op = "cleanup"
    /\ Cardinality(DOMAIN last.pre) = Cardinality(Ips)
    /\ \E key \in DOMAIN last.pre : Len(last.pre[key].attempts) = maxRequests
    /\ rateLimitStore = << >>

----------------------------------------------------------------------------
(* Claims about the client key *)

\* The part of header h before its first comma.
FirstValue(h) ==
    LET n == CHOOSE n \in 1..(Len(h) + 1) :
                 /\ n = Len(h) + 1 \/ h[n] = ","
                 /\ \A i \in 1..(n - 1) : h[i] # ","
    IN SubSeq(h, 1, n - 1)

\* v without the spaces at its two ends.
Trimmed(v) ==
    LET inked == {i \in 1..Len(v) : v[i] # " "}
    IN IF inked = {} THEN <<>>
       ELSE SubSeq(v, CHOOSE i \in inked : \A j \in inked : i <= j,
                      CHOOSE i \in inked : \A j \in inked : i >= j)

\* C22, as claimed: the key is the trimmed first value of x-forwarded-for
\* whenever the request carries that header, else x-real-ip when it carries
\* that one, else 'unknown'.
C22_Original ==
    last.op = "POST" =>
        last.ip = IF last.req.xff # Absent THEN Trimmed(FirstValue(last.req.xff))
                  ELSE IF last.req.realIp # Absent THEN last.req.realIp
                  ELSE Str("unknown")

\* C22, amended: the key is the trimmed first value of x-forwarded-for when
\* the request carries that header and that value is not empty; else
\* x-real-ip when the request carries it and it is not empty; else 'unknown'.
\* The limiter is called with that key.
C22_ClientKey ==
    last.op = "POST" =>
        LET xff == last.req.xff
            realIp == last.req.realIp
        IN /\ last.ip = IF xff # Absent /\ Trimmed(FirstValue(xff)) # <<>>
                        THEN Trimmed(FirstValue(xff))
                        ELSE IF realIp # Absent /\ realIp # <<>> THEN realIp
                        ELSE Str("unknown")
           /\ Len(log[last.ip]) = last.req.call
           /\ RateLimitKey(last.ip) \in DOMAIN rateLimitStore

\* A request whose x-forwarded-for has a blank first value gets the key of
\* its x-real-ip, after a request with neither header was counted under
\* 'unknown'.
C22_Witness ==
    /\ last.op = "POST"
    /\ last.req.xff = <<" ", ",", "1.2.3.4">>
    /\ last.req.realIp = Str("unknown")
    /\ last.ip = Str("unknown")
    /\ Len(log[Str("unknown")]) > 1

----------------------------------------------------------------------------
(* Claims about the store as a whole *)

\* The ip of a key of the store.
IpOf(key) == CHOOSE ip \in Ips : RateLimitKey(ip) = key

\* C23: every entry of the store holds between 1 and maxRequests attempts,
\* in non-decreasing order, each the clock reading of an admitted call of its
\* key; this with calls, cleanups and resets in any order.
C23_EntriesWellFormed ==
    \A key \in DOMAIN rateLimitStore :
        LET attempts == rateLimitStore[key].attempts
        IN /\ key \in {RateLimitKey(ip) : ip \in Ips}
           /\ Len(attempts) \in 1..maxRequests
           /\ \A i \in 1..(Len(attempts) - 1) : attempts[i] <= attempts[i + 1]
           /\ \A i \in 1..Len(attempts) :
                 \E c \in AdmittedCalls(IpOf(key)) : log[IpOf(key)][c].at = attempts[i]

\* An entry holds maxRequests attempts made at two clock readings, after its
\* key was reset and admitted again.
C23_Witness ==
    \E ip \in Ips :
        /\ RateLimitKey(ip) \in DOMAIN rateLimitStore
        /\ LET attempts == rateLimitStore[RateLimitKey(ip)].attempts
           IN /\ Len(attempts) = maxRequests
              /\ attempts[1] < attempts[maxRequests]
        /\ Cardinality(AdmittedCalls(ip)) > maxRequests

\* C24: an admitted POST counts against its key whatever it is answered.  In
\* a process where no POST can be answered 200, every admitted request ends
\* with 403, 400 or 500; its attempt stays in the store as long as it is
\* inside the window, and a POST that finds maxRequests such attempts is
\* answered 429, its tokens being valid or not.
C24_QuotaConsumed ==
    /\ last.res.status \in {0, 400, 403, 405, 429, 500}
    /\ \A r \in BagToSet(inflight) : r.dispatches = <<>>
    /\ \A ip \in Ips : LiveStored(ip) = LiveAdmitted(ip)
    /\ last.res.status \in {400, 403, 500} =>
          log[last.ip][last.req.call].result.allowed
    /\ last.op = "POST" =>
          (last.res.status = 429 <=> LiveBefore(last.ip, last.req.call) = maxRequests)

\* A POST with valid tokens is refused with 429 after five admitted requests
\* of its key, made at two clock readings of one window, were each answered
\* 403, 400 or 500.
C24_Witness ==
    /\ env = Unconfigured
    /\ last.op = "POST"
    /\ ~BadTokens(last.req)
    /\ last.res.status = 429
    /\ inflight = EmptyBag
    /\ LiveBefore(last.ip, last.req.call) = maxRequests
    /\ log[last.ip][1].at < log[last.ip][maxRequests].at

\* The store the first n logged calls of ip leave when no cleanup runs.
RECURSIVE SweepFree(_, _)
SweepFree(ip, n) ==
    IF n = 0 THEN << >>
    ELSE CheckStore(SweepFree(ip, n - 1), ip, log[ip][n].at)

\* C25: every call returns what it returns in the run of the same calls at
\* the same clock readings without any cleanup, and a cleanup leaves the
\* entries it keeps as they were.
C25_SweepInvisible ==
    /\ \A ip \in Ips : \A c \in 1..Len(log[ip]) :
          log[ip][c].result = CheckResult(SweepFree(ip, c - 1), ip, log[ip][c].at)
    /\ last.op = "cleanup" =>
          \A key \in DOMAIN rateLimitStore :
              key \in DOMAIN last.pre /\ rateLimitStore[key] = last.pre[key]

\* A key is called again after a cleanup removed its entry and kept the
\* entry of the other key, which the cleanup-free run still holds.
C25_Witness ==
    /\ last.op = "check"
    /\ Len(log[last.ip]) > 1
    /\ RateLimitKey(last.ip) \notin DOMAIN last.pre
    /\ RateLimitKey(last.ip) \in DOMAIN SweepFree(last.ip, Len(log[last.ip]) - 1)
    /\ Cardinality(DOMAIN rateLimitStore) = Cardinality(Ips)

====
